---- MODULE Spec2Model ----
(***************************************************************************)
(* Byte-level BPE tokenizer (src/src/tokenizer.rs): BasicTokenizer with    *)
(* train / encode / decode and the free functions merge and get_stats.     *)
(*                                                                         *)
(* A text (&str / String) is a sequence of Unicode code points; its bytes  *)
(* are its UTF-8 encoding.  A Vec<u32> is a sequence of naturals.  A       *)
(* HashMap is a function; its iteration order is arbitrary.  A panic is a  *)
(* terminal state pc = "panicked" with err naming the panicking line.      *)
(***************************************************************************)
EXTENDS Naturals, Integers, Sequences, FiniteSets

\* ------------------------------------------------------------------ bounds
MaxCorpus == 3      \* longest training corpus, in characters
MaxText == 2        \* longest text given to encode, in characters
MaxVocab == 258     \* largest vocab_size given to train
MaxForeign == 1     \* longest foreign id sequence given to decode
MaxLen == 4         \* longest id sequence given to merge on its own
MaxEncodeCorpus == 2  \* longest training corpus where encode's loop is followed

\* ------------------------------------------------------- program constants
Base == 256         \* the byte alphabet: train seeds ids 0..255

\* 'a', 'b' (one byte each) and U+00E9 (two bytes: 195 169)
Alphabet == {97, 98, 233}
\* smallest and largest vocab_size tried; 255 is below the byte alphabet
VocabSizes == 255..MaxVocab
\* ids given to decode that no encode produced: plain bytes, a lone UTF-8
\* lead byte, a lone continuation byte, a minted id, an id never minted
ForeignIdValues == {97, 169, 195, 256, 999}
\* ids, pairs and replacement ids given to merge on its own
MergeIdValues == {3, 4, 5}
MergeIdx == 10

SeqsUpTo(S, n) == UNION {[1..k -> S] : k \in 0..n}

\* --------------------------------------------------------- text <-> bytes
\* char::encode_utf8, as used by str::as_bytes
Utf8Char(cp) ==
    IF cp < 128 THEN <<cp>>
    ELSE IF cp < 2048 THEN <<192 + (cp \div 64), 128 + (cp % 64)>>
    ELSE IF cp < 65536 THEN
        <<224 + (cp \div 4096), 128 + ((cp \div 64) % 64), 128 + (cp % 64)>>
    ELSE <<240 + (cp \div 262144), 128 + ((cp \div 4096) % 64),
           128 + ((cp \div 64) % 64), 128 + (cp % 64)>>

RECURSIVE as_bytes(_)
as_bytes(text) ==
    IF text = << >> THEN << >>
    ELSE Utf8Char(Head(text)) \o as_bytes(Tail(text))

IsCont(b) == b \in 128..191

\* String::from_utf8: the code points of a valid byte buffer, or an error
RECURSIVE from_utf8_at(_, _, _)
from_utf8_at(buf, k, acc) ==
    IF k > Len(buf) THEN [ok |-> TRUE, val |-> acc]
    ELSE LET b0 == buf[k]
             has(n) == k + n <= Len(buf)
             lo2 == IF b0 = 224 THEN 160 ELSE IF b0 = 240 THEN 144 ELSE 128
             hi2 == IF b0 = 237 THEN 159 ELSE IF b0 = 244 THEN 143 ELSE 191
             bad == [ok |-> FALSE, val |-> << >>]
         IN  IF b0 < 128 THEN from_utf8_at(buf, k + 1, Append(acc, b0))
             ELSE IF b0 \in 194..223 THEN
                 IF has(1) /\ IsCont(buf[k + 1])
                 THEN from_utf8_at(buf, k + 2,
                        Append(acc, (b0 - 192) * 64 + (buf[k + 1] - 128)))
                 ELSE bad
             ELSE IF b0 \in 224..239 THEN
                 IF has(2) /\ buf[k + 1] \in lo2..hi2 /\ IsCont(buf[k + 2])
                 THEN from_utf8_at(buf, k + 3,
                        Append(acc, (b0 - 224) * 4096 + (buf[k + 1] - 128) * 64
                                    + (buf[k + 2] - 128)))
                 ELSE bad
             ELSE IF b0 \in 240..244 THEN
                 IF has(3) /\ buf[k + 1] \in lo2..hi2 /\ IsCont(buf[k + 2])
                    /\ IsCont(buf[k + 3])
                 THEN from_utf8_at(buf, k + 4,
                        Append(acc, (b0 - 240) * 262144
                                    + (buf[k + 1] - 128) * 4096
                                    + (buf[k + 2] - 128) * 64
                                    + (buf[k + 3] - 128)))
                 ELSE bad
             ELSE bad

from_utf8(buf) == from_utf8_at(buf, 1, << >>)

\* ------------------------------------------------------------------ merge
\* the for loop over ids.windows(2): window w is (ids[w], ids[w+1])
RECURSIVE merge_loop(_, _, _, _, _, _)
merge_loop(ids, pair, idx, w, merged, new_ids) ==
    IF w > Len(ids) - 1 THEN new_ids
    ELSE IF merged THEN merge_loop(ids, pair, idx, w + 1, FALSE, new_ids)
    ELSE IF pair[1] = ids[w] /\ pair[2] = ids[w + 1]
         THEN merge_loop(ids, pair, idx, w + 1, TRUE, Append(new_ids, idx))
         ELSE merge_loop(ids, pair, idx, w + 1, FALSE, Append(new_ids, ids[w]))

\* the loop with the match branch lost: every element is copied
merge_never_matches(ids, pair, idx) ==
    IF Len(ids) = 0
    THEN [panic |-> TRUE, val |-> << >>]
    ELSE [panic |-> FALSE, val |-> ids]

\* merge(ids, pair, idx): the loop, then new_ids.push(ids[ids.len() - 1]).
\* On an empty slice ids.len() - 1 underflows: a panic with overflow checks,
\* an out-of-bounds index (a panic too) without them.
merge(ids, pair, idx) ==
    IF Len(ids) = 0
    THEN [panic |-> TRUE, val |-> << >>]
    ELSE [panic |-> FALSE,
          val |-> Append(merge_loop(ids, pair, idx, 1, FALSE, << >>),
                         ids[Len(ids)])]

\* get_stats: the count of every adjacent pair
get_stats(ids) ==
    LET pairs == {<<ids[w], ids[w + 1]>> : w \in 1..(Len(ids) - 1)}
    IN  [p \in pairs |->
            Cardinality({w \in 1..(Len(ids) - 1) : <<ids[w], ids[w + 1]>> = p})]


\* ------------------------------------------------------------------ state
VARIABLES
    pc,          \* where the program is: "new", "training", "trained", ...
    err,         \* "none", or the panic that ended the program
    corpus,      \* train's text
    vocab_size,  \* train's vocab_size
    verbose,     \* train's verbose
    vocab,       \* BasicTokenizer.vocab: id -> bytes
    merges,      \* BasicTokenizer.merges: (id, id) -> minted id
    num_merges,  \* train's num_merges
    i,           \* train's loop variable: the rounds completed
    ids,         \* train's ids
    s,           \* the text given to encode
    eids,        \* encode's ids
    encoded,     \* encode(s)
    decoded,     \* decode(encoded), or decode(fids)
    reencoded,   \* encode(decoded)
    fids,        \* a foreign id sequence given to decode
    pc2, err2, vocab2, merges2, i2, ids2,  \* a second tokenizer, same inputs
    mpc, mids, mpair, mout                 \* a call of merge on its own

tok1 == <<pc, err, vocab, merges, num_merges, i, ids>>
inputs == <<corpus, vocab_size, verbose>>
session == <<s, eids, encoded, decoded, reencoded, fids>>
tok2 == <<pc2, err2, vocab2, merges2, i2, ids2>>
mcall == <<mpc, mids, mpair, mout>>
vars == <<tok1, inputs, session, tok2, mcall>>

\* BasicTokenizer::new
NewVocab == [k \in {} |-> << >>]
NewMerges == [p \in {} |-> 0]

\* ------------------------------------------------------------------ train
\* let num_merges: usize = vocab_size - 256.  Below 256 the subtraction
\* underflows: a panic with overflow checks (debug builds), the value
\* 2^64 + (vocab_size - 256) without them (release builds).  The wrapped
\* value is kept as the difference with wrapped = TRUE; it exceeds every
\* loop index the model reaches.
NumMergesOutcomes(vs) ==
    IF vs >= Base
    THEN {[panic |-> FALSE, wrapped |-> FALSE, val |-> vs - Base]}
    ELSE {[panic |-> TRUE, wrapped |-> FALSE, val |-> 0],
          [panic |-> FALSE, wrapped |-> TRUE, val |-> vs - Base]}

\* for i in 0..256 { self.vocab.insert(i, [i as u8]) }
SeedVocab(v) ==
    [k \in (DOMAIN v) \cup (0..(Base - 1)) |->
        IF k \in 0..(Base - 1) THEN <<k>> ELSE v[k]]

\* i < num_merges, the range's bound
LoopContinues(k, nm) == nm.wrapped \/ k < nm.val

\* the rounds the model follows a wrapped num_merges for
RoundCap == MaxVocab - Base

\* stats.iter().max_by_key(|(_, v)| *v): a pair of maximal count; which one
\* among equals depends on the HashMap's iteration order, which is arbitrary
MaxPairs(stats) ==
    {p \in DOMAIN stats : \A q \in DOMAIN stats : stats[q] <= stats[p]}

\* a mint that skips an id
minted_idx_skips(v) == Cardinality(DOMAIN v) + 1

\* self.vocab.len() as u32 (the length stays far below 2^32)
minted_idx_of(v) == Cardinality(DOMAIN v)

\* HashMap::insert
Insert(f, k, x) == [y \in (DOMAIN f) \cup {k} |-> IF y = k THEN x ELSE f[y]]

\* One iteration of train's loop on a tokenizer (v, m) with sequence sq:
\* every outcome it can have.
RoundOutcomes(v, m, sq, verb) ==
    LET stats == get_stats(sq)
        stay(e) == [pc |-> "panicked", vocab |-> v, merges |-> m, ids |-> sq,
                    err |-> e]
    IN  IF DOMAIN stats = {}
        THEN {stay("train:73 unwrap on None")}
        ELSE { LET minted == minted_idx_of(v)
                   nids == merge(sq, pair, minted).val
               IN  IF pair[1] \notin DOMAIN v \/ pair[2] \notin DOMAIN v
                   THEN stay("train:79 unwrap on None")
                   ELSE LET concat_bytes == v[pair[1]] \o v[pair[2]]
                            nv == Insert(v, minted, concat_bytes)
                            nm == Insert(m, pair, minted)
                        IN  IF verb /\ ~from_utf8(nv[minted]).ok
                            THEN [pc |-> "panicked", vocab |-> nv, merges |-> nm,
                                  ids |-> nids, err |-> "train:89 unwrap on Err"]
                            ELSE [pc |-> "training", vocab |-> nv, merges |-> nm,
                                  ids |-> nids, err |-> "none"]
               : pair \in MaxPairs(stats) }

TrainStart ==
    /\ pc = "new"
    /\ \E nm \in NumMergesOutcomes(vocab_size) :
          IF nm.panic
          THEN /\ pc' = "panicked"
               /\ err' = "train:58 subtract with overflow"
               /\ UNCHANGED <<vocab, merges, num_merges, i, ids>>
          ELSE /\ pc' = "training"
               /\ num_merges' = nm
               /\ ids' = as_bytes(corpus)
               /\ vocab' = SeedVocab(vocab)
               /\ i' = 0
               /\ UNCHANGED <<err, merges>>
    /\ UNCHANGED <<inputs, session, tok2, mcall>>

TrainRound ==
    /\ pc = "training"
    /\ LoopContinues(i, num_merges)
    /\ i < RoundCap
    /\ \E o \in RoundOutcomes(vocab, merges, ids, verbose) :
          /\ pc' = o.pc
          /\ err' = o.err
          /\ vocab' = o.vocab
          /\ merges' = o.merges
          /\ ids' = o.ids
          /\ i' = IF o.pc = "training" THEN i + 1 ELSE i
    /\ UNCHANGED <<num_merges, inputs, session, tok2, mcall>>

TrainReturn ==
    /\ pc = "training"
    /\ ~LoopContinues(i, num_merges)
    /\ pc' = "trained"
    /\ UNCHANGED <<err, vocab, merges, num_merges, i, ids,
                   inputs, session, tok2, mcall>>


\* ----------------------------------------------------------------- encode
\* the key of min_by_key, self.merges.get(&pair).unwrap_or(&u32::MAX), as an
\* order: p's key is below q's (every minted id is below u32::MAX)
KeyLess(m, p, q) ==
    /\ p \in DOMAIN m
    /\ (q \in DOMAIN m => m[p] < m[q])

Window(sq, w) == <<sq[w], sq[w + 1]>>

\* bigrams.iter().min_by_key(..): the first window of minimal key
BestPair(m, sq) ==
    LET W == 1..(Len(sq) - 1)
        best == CHOOSE w \in W :
                    /\ \A x \in W : ~KeyLess(m, Window(sq, x), Window(sq, w))
                    /\ \A x \in W : x < w => KeyLess(m, Window(sq, w), Window(sq, x))
    IN  Window(sq, best)

\* the loop goes on: ids.len() > 1 and the best pair is a key of merges
EncodeContinues(m, sq) == Len(sq) > 1 /\ BestPair(m, sq) \in DOMAIN m

\* encode(text) starts: the text's bytes as ids
EncodeStart ==
    /\ pc = "trained"
    /\ \E text \in SeqsUpTo(Alphabet, MaxText) :
          /\ s' = text
          /\ eids' = as_bytes(text)
    /\ pc' = "encoding"
    /\ UNCHANGED <<err, vocab, merges, num_merges, i, ids, inputs,
                   encoded, decoded, reencoded, fids, tok2, mcall>>

\* encode(decoded) starts
ReEncodeStart ==
    /\ pc = "decoded"
    /\ eids' = as_bytes(decoded)
    /\ pc' = "reencoding"
    /\ UNCHANGED <<err, vocab, merges, num_merges, i, ids, inputs,
                   s, encoded, decoded, reencoded, fids, tok2, mcall>>

\* one iteration of encode's loop that merges
EncodeStep ==
    /\ pc \in {"encoding", "reencoding"}
    /\ EncodeContinues(merges, eids)
    /\ LET pair == BestPair(merges, eids)
       IN  eids' = merge(eids, pair, merges[pair]).val
    /\ UNCHANGED <<pc, err, vocab, merges, num_merges, i, ids, inputs,
                   s, encoded, decoded, reencoded, fids, tok2, mcall>>

\* encode leaves its loop and returns ids
EncodeReturn ==
    /\ pc \in {"encoding", "reencoding"}
    /\ ~EncodeContinues(merges, eids)
    /\ IF pc = "encoding"
       THEN pc' = "encoded" /\ encoded' = eids /\ UNCHANGED reencoded
       ELSE pc' = "done" /\ reencoded' = eids /\ UNCHANGED encoded
    /\ UNCHANGED <<err, vocab, merges, num_merges, i, ids, inputs,
                   s, eids, decoded, fids, tok2, mcall>>

\* ----------------------------------------------------------------- decode
RECURSIVE ConcatBytes(_, _)
ConcatBytes(v, sq) ==
    IF sq = << >> THEN << >> ELSE v[Head(sq)] \o ConcatBytes(v, Tail(sq))

\* decode(ids): self.vocab[idx] panics on an id that is no key;
\* String::from_utf8(..).unwrap() panics on bytes that are no UTF-8
decode(v, sq) ==
    IF \E k \in 1..Len(sq) : sq[k] \notin DOMAIN v
    THEN [panic |-> TRUE, err |-> "decode:123 index on a missing key", val |-> << >>]
    ELSE LET r == from_utf8(ConcatBytes(v, sq))
         IN  IF r.ok
             THEN [panic |-> FALSE, err |-> "none", val |-> r.val]
             ELSE [panic |-> TRUE, err |-> "decode:125 unwrap on Err", val |-> << >>]

\* decode(&encoded)
Decode ==
    /\ pc = "encoded"
    /\ LET r == decode(vocab, encoded)
       IN  /\ pc' = IF r.panic THEN "panicked" ELSE "decoded"
           /\ err' = r.err
           /\ decoded' = r.val
    /\ UNCHANGED <<vocab, merges, num_merges, i, ids, inputs,
                   s, eids, encoded, reencoded, fids, tok2, mcall>>

\* decode of an id sequence that did not come from encode
DecodeForeign ==
    /\ pc = "trained"
    /\ \E f \in SeqsUpTo(ForeignIdValues, MaxForeign) :
          /\ fids' = f
          /\ LET r == decode(vocab, f)
             IN  /\ pc' = IF r.panic THEN "panicked" ELSE "foreign_decoded"
                 /\ err' = r.err
                 /\ decoded' = r.val
    /\ UNCHANGED <<vocab, merges, num_merges, i, ids, inputs,
                   s, eids, encoded, reencoded, tok2, mcall>>

\* ------------------------------------------- a second tokenizer, same inputs
\* the second train runs in the same build as the first, so the subtraction
\* at line 58 has the outcome it had there
TrainStart2 ==
    /\ pc = "trained"
    /\ pc2 = "new"
    /\ \E nm \in NumMergesOutcomes(vocab_size) :
          IF nm.panic
          THEN /\ pc2' = "panicked"
               /\ err2' = "train:58 subtract with overflow"
               /\ UNCHANGED <<vocab2, i2, ids2>>
          ELSE /\ nm = num_merges
               /\ pc2' = "training"
               /\ ids2' = as_bytes(corpus)
               /\ vocab2' = SeedVocab(vocab2)
               /\ i2' = 0
               /\ UNCHANGED err2
    /\ UNCHANGED <<tok1, inputs, session, merges2, mcall>>

TrainRound2 ==
    /\ pc2 = "training"
    /\ LoopContinues(i2, num_merges)
    /\ i2 < RoundCap
    /\ \E o \in RoundOutcomes(vocab2, merges2, ids2, verbose) :
          /\ pc2' = o.pc
          /\ err2' = o.err
          /\ vocab2' = o.vocab
          /\ merges2' = o.merges
          /\ ids2' = o.ids
          /\ i2' = IF o.pc = "training" THEN i2 + 1 ELSE i2
    /\ UNCHANGED <<tok1, inputs, session, mcall>>

TrainReturn2 ==
    /\ pc2 = "training"
    /\ ~LoopContinues(i2, num_merges)
    /\ pc2' = "trained"
    /\ UNCHANGED <<tok1, inputs, session, err2, vocab2, merges2, i2, ids2, mcall>>

\* --------------------------------------------------- merge called on its own
MergeCall ==
    /\ mpc = "call"
    /\ mout' = merge(mids, mpair, MergeIdx)
    /\ mpc' = "returned"
    /\ UNCHANGED <<tok1, inputs, session, tok2, mids, mpair>>

\* --------------------------------------------------------- specifications
NoSession ==
    /\ s = << >> /\ eids = << >> /\ encoded = << >>
    /\ decoded = << >> /\ reencoded = << >> /\ fids = << >>

NoTok2 ==
    /\ pc2 = "new" /\ err2 = "none" /\ vocab2 = NewVocab
    /\ merges2 = NewMerges /\ i2 = 0 /\ ids2 = << >>

NoMergeCall ==
    /\ mpc = "idle" /\ mids = << >> /\ mpair = <<0, 0>>
    /\ mout = [panic |-> FALSE, val |-> << >>]

\* a fresh tokenizer and the arguments train will be given, the corpus of
\* at most n characters
InitWith(n) ==
    /\ pc = "new" /\ err = "none"
    /\ vocab = NewVocab /\ merges = NewMerges
    /\ num_merges = [panic |-> FALSE, wrapped |-> FALSE, val |-> 0]
    /\ i = 0 /\ ids = << >>
    /\ corpus \in SeqsUpTo(Alphabet, n)
    /\ vocab_size \in VocabSizes
    /\ verbose \in BOOLEAN
    /\ NoSession /\ NoTok2 /\ NoMergeCall

Init == InitWith(MaxCorpus)

\* train, then encode / decode / encode again (test_decode), or a decode of
\* foreign ids
Next ==
    \/ TrainStart \/ TrainRound \/ TrainReturn
    \/ EncodeStart \/ EncodeStep \/ EncodeReturn
    \/ Decode \/ ReEncodeStart \/ DecodeForeign

Spec == Init /\ [][Next]_vars

\* the program keeps running: encode's next step, when it has one, is taken
InitEncode == InitWith(MaxEncodeCorpus)

FairSpec == InitEncode /\ [][Next]_vars /\ WF_vars(EncodeStep \/ EncodeReturn)

\* two fresh tokenizers trained with the same arguments
NextTwo ==
    \/ TrainStart \/ TrainRound \/ TrainReturn
    \/ TrainStart2 \/ TrainRound2 \/ TrainReturn2

SpecTwo == Init /\ [][NextTwo]_vars

\* merge applied to every small sequence and pair
InitMerge ==
    /\ pc = "new" /\ err = "none"
    /\ vocab = NewVocab /\ merges = NewMerges
    /\ num_merges = [panic |-> FALSE, wrapped |-> FALSE, val |-> 0]
    /\ i = 0 /\ ids = << >>
    /\ corpus = << >> /\ vocab_size = Base /\ verbose = FALSE
    /\ NoSession /\ NoTok2
    /\ mpc = "call"
    /\ mids \in SeqsUpTo(MergeIdValues, MaxLen)
    /\ mpair \in MergeIdValues \X MergeIdValues
    /\ mout = [panic |-> FALSE, val |-> << >>]

NextMerge == MergeCall

SpecMerge == InitMerge /\ [][NextMerge]_vars


\* ----------------------------------------------------------------- claims
TrainPanics ==
    {"train:58 subtract with overflow", "train:73 unwrap on None",
     "train:79 unwrap on None", "train:89 unwrap on Err"}
DecodePanics ==
    {"decode:123 index on a missing key", "decode:125 unwrap on Err"}

\* decode(&encoded) has been called (fids stays empty on this path, and a
\* decode of the empty foreign sequence never panics)
RoundTripDecodeCalled ==
    \/ pc \in {"decoded", "reencoding", "done"}
    \/ pc = "panicked" /\ err \in DecodePanics /\ fids = << >>

\* C1: for every trained tokenizer and every text t, decode(encode(t))
\* returns t.
C1_RoundTrip ==
    RoundTripDecodeCalled => pc # "panicked" /\ decoded = s

\* the greedy non-overlapping merge the Merger's contract describes
RECURSIVE RefMerge(_, _, _)
RefMerge(sq, pair, m) ==
    IF Len(sq) < 2 THEN sq
    ELSE IF sq[1] = pair[1] /\ sq[2] = pair[2]
         THEN <<m>> \o RefMerge(SubSeq(sq, 3, Len(sq)), pair, m)
         ELSE <<sq[1]>> \o RefMerge(Tail(sq), pair, m)

\* C2: for every sequence of length >= 2, merge returns the greedy
\* non-overlapping left-to-right merge, also when the pair sits at the last
\* two positions.
C2_MergeIsGreedy ==
    (mpc = "returned" /\ Len(mids) >= 2) =>
        mout = [panic |-> FALSE, val |-> RefMerge(mids, mpair, MergeIdx)]

\* C3: train with vocab_size < 256 returns an InvalidConfiguration error
\* and leaves the Vocabulary and the Merge Table as they were.
C3_InvalidConfiguration ==
    (vocab_size < Base /\ pc # "new") =>
        /\ pc # "panicked"
        /\ err = "InvalidConfiguration"
        /\ vocab = NewVocab
        /\ merges = NewMerges

\* C4: when no adjacent pair is left before vocab_size - 256 merges were
\* performed, train does not fail.
C4_EarlyStop ==
    (vocab_size >= Base /\ pc # "new" /\ Len(ids) < 2 /\ i < vocab_size - Base)
        => ~(pc = "panicked" /\ err \in TrainPanics)

\* C5: two fresh tokenizers trained with the same corpus and vocab_size end
\* with the same Vocabulary and Merge Table.
C5_Deterministic ==
    (pc = "trained" /\ pc2 = "trained") => vocab = vocab2 /\ merges = merges2

\* the ids hold an id that is no key of the Vocabulary, or their bytes are
\* no valid text
Corrupted(v, sq) ==
    \/ \E k \in 1..Len(sq) : sq[k] \notin DOMAIN v
    \/ ~from_utf8(ConcatBytes(v, sq)).ok

\* C6: decode of a foreign or corrupted id sequence returns an
\* InvalidEncoding error to its caller; it does not abort.
C6_DecodeReportsInvalidEncoding ==
    (pc \notin {"new", "training"} /\ fids # << >> /\ Corrupted(vocab, fids)) =>
        pc # "panicked" /\ err = "InvalidEncoding"

Range(f) == {f[x] : x \in DOMAIN f}

\* C7: after every completed round of a training on a fresh tokenizer, with
\* i rounds completed, the Vocabulary's ids are exactly 0 .. 255+i, the Merge
\* Table has i entries whose minted ids are exactly 256 .. 255+i, every key
\* pair holds ids below the id it maps to, and a training with
\* vocab_size = 256 ends with 256 ids and an empty Merge Table.
C7_DenseVocabulary ==
    (pc # "new" /\ ~(pc = "panicked" /\ err \in TrainPanics)) =>
        /\ DOMAIN vocab = 0..(Base - 1 + i)
        /\ Cardinality(DOMAIN vocab) = Base + i
        /\ Cardinality(DOMAIN merges) = i
        /\ Range(merges) = Base..(Base - 1 + i)
        /\ \A p \in DOMAIN merges : p[1] < merges[p] /\ p[2] < merges[p]
        /\ (vocab_size = Base /\ pc # "training") =>
              /\ i = 0
              /\ Cardinality(DOMAIN vocab) = Base
              /\ merges = NewMerges

\* a training that completed two rounds and returned
C7_Witness == pc = "trained" /\ i >= 2 /\ Cardinality(DOMAIN merges) = 2

\* C8: for every trained tokenizer and every text t,
\* encode(decode(encode(t))) is encode(t).
C8_Idempotent == pc = "done" => reencoded = encoded

Adjacent(sq, pair) == \E w \in 1..(Len(sq) - 1) : Window(sq, w) = pair

\* C9: for every sequence, the empty and the one-element sequence included,
\* and every pair not adjacent in it, merge returns the sequence unchanged.
C9_AbsentPairUnchanged ==
    (mpc = "returned" /\ ~Adjacent(mids, mpair)) =>
        mout = [panic |-> FALSE, val |-> mids]

\* C10: every call of encode leaves its loop.
C10_EncodeTerminates ==
    (pc \in {"encoding", "reencoding"}) ~> (pc \notin {"encoding", "reencoding"})

\* an encode that returned after iterations that merged without shortening
C10_Witness ==
    /\ pc = "encoded"
    /\ Len(encoded) = Len(as_bytes(s))
    /\ encoded # as_bytes(s)

====
